---- MODULE Spec2Model ----
(***************************************************************************)
(* Model of shell_whiz/cli.py: the `sw` command line entry point (run,     *)
(* main, run_ai_assistant) and the interactive loop shell_whiz_ask that    *)
(* translates a prompt to a shell command, renders it, checks it for       *)
(* danger, explains it and asks the user what to do with it.               *)
(*                                                                         *)
(* A string is a sequence of one-character strings; a shell command is a   *)
(* sequence of lines. The backend (translator, editor, classifier,         *)
(* explainer), the user and the executed command are the environment: the  *)
(* values they return are chosen with \E from small sets.                  *)
(***************************************************************************)
EXTENDS Integers, Sequences, FiniteSets, TLC

\* ------------------------------------------------------------------ bounds

\* loop iterations of shell_whiz_ask one invocation may go through
MaxIter == 3
\* positional words of `sw ask <prompt...>`
MaxWords == 2

\* --------------------------------------------------------------- constants

\* shell_whiz.constants: the three dedicated non-zero exit codes
INV_CLI_ARGS_EXIT_CODE == 1
SW_ERROR_EXIT_CODE == 2
OPENAI_ERROR_EXIT_CODE == 3

\* the classes of openai.error that run() names, in the order of its except
\* clauses; every one but the last is a direct subclass of OpenAIError
BackendErrors ==
    << "APIError", "Timeout", "APIConnectionError", "InvalidRequestError",
       "AuthenticationError", "PermissionError", "RateLimitError",
       "ServiceUnavailableError", "OpenAIError" >>

BackendErrorSet == { BackendErrors[i] : i \in 1..Len(BackendErrors) }

\* issubclass(raised, handled) in openai.error
IsSubclass(raised, handled) == raised = handled \/ handled = "OpenAIError"

\* the message each except clause of run() prints
HandlerMessage ==
    << "api error: retry after a brief wait, see status.openai.com",
       "request timed out: retry after a brief wait",
       "failed to connect: check your internet connection",
       "request malformed or missing required parameters",
       "not authorized: run sw config to set up the API key",
       "api key lacks the required scope or role",
       "rate limit exceeded",
       "temporary server-side issue: retry after a brief wait",
       "unknown error: retry after a brief wait" >>

\* ------------------------------------------------------------------ inputs

Chars == {" ", "l"}
\* a positional word: the empty string, a blank, or a letter
Words == { <<>> } \cup { <<c>> : c \in Chars }
Argvs == UNION { [1..n -> Words] : n \in 0..MaxWords }

\* shell commands the backend or the user can produce, as sequences of lines
Commands == { <<>>, <<"ls -la">>, <<"cd /tmp", "rm -rf *">> }
\* what the user can type into a one-line text field
TypedCommands == { c \in Commands : Len(c) <= 1 }
Instructions == { "", "add -h" }
Explanations == { "markdown explanation" }
\* recognize_dangerous_command's (is_dangerous, dangerous_consequences)
Assessments == { <<TRUE, "irreversibly deletes all files">>, <<FALSE, "">> }
\* return codes of the executed command
ReturnCodes == { 0, 1 }

VARIABLES
    pc,                      \* position of the single thread of control
    sw_command,              \* args.sw_command
    argv,                    \* args.prompt, the positional words
    configured,              \* a credential is stored
    prompt,                  \* shell_whiz_ask's parameter
    first_run,
    edit_prompt,
    shell_command,
    is_dangerous,
    dangerous_consequences,
    explanation_task,        \* "none", "pending", "running", "done", "cancelled"
    choice,                  \* answers["action"]
    exc,                     \* the exception unwinding to run(), or "none"
    exit_code,               \* <<>> while running, <<status>> once terminated
    executed,                \* subprocess.run calls: <<[cmd, returncode]>>
    iter,                    \* history: loop iterations begun
    out,                     \* history: events since the iteration began
    rendered,                \* history: what print_command printed last
    submitted,               \* history: the command typed at the last "Edit command"
    prev_warned,             \* history: the previous iteration showed a warning
    revised,                 \* history: a non-empty revision instruction was typed
    interrupted,             \* history: what a KeyboardInterrupt broke off, or ""
    ensured                  \* history: shell_whiz_config() was called

vars == << pc, sw_command, argv, configured, prompt, first_run, edit_prompt,
           shell_command, is_dangerous, dangerous_consequences,
           explanation_task, choice, exc, exit_code, executed, iter, out,
           rendered, submitted, prev_warned, revised, interrupted,
           ensured >>

\* ------------------------------------------------------------------ events

Event(ev, who, arg, text) == [ev |-> ev, who |-> who, arg |-> arg, text |-> text]
Call(who, arg) == Event("call", who, arg, "")
Return(who, result, arg) == Event("return", who, arg, result)
Message(text) == Event("message", "", <<>>, text)
Asked(what) == Event("prompt", what, <<>>, "")

\* ------------------------------------------------------------ pure helpers

RECURSIVE Join(_)
\* " ".join(words)
Join(words) ==
    IF Len(words) = 0 THEN <<>>
    ELSE IF Len(words) = 1 THEN words[1]
    ELSE words[1] \o <<" ">> \o Join(Tail(words))

RECURSIVE LStrip(_)
LStrip(s) == IF Len(s) > 0 /\ s[1] = " " THEN LStrip(Tail(s)) ELSE s

RECURSIVE RStrip(_)
RStrip(s) ==
    IF Len(s) > 0 /\ s[Len(s)] = " " THEN RStrip(SubSeq(s, 1, Len(s) - 1)) ELSE s

\* str.strip()
Strip(s) == RStrip(LStrip(s))

\* print_command: each line of the command behind one blank
PrintCommand(cmd) ==
    Event("print_command", "", [i \in 1..Len(cmd) |-> " " \o cmd[i]], "")

\* print_explanation
PrintExplanation(text) == Event("print_explanation", "", <<>>, text)
\* HandlerFor with the base class clause, `except openai.error.OpenAIError`,
\* written first: it catches every kind
HandlerFor_BaseClassFirst(raised) == Len(BackendErrors)

\* the except clause of run() that catches `raised`: the first that matches
HandlerFor(raised) ==
    CHOOSE i \in 1..Len(BackendErrors) :
        /\ IsSubclass(raised, BackendErrors[i])
        /\ \A j \in 1..(i - 1) : ~IsSubclass(raised, BackendErrors[j])


\* ------------------------------------------------------------ initial state

Init ==
    /\ pc = "main"
    /\ sw_command \in {"ask", "config"}
    /\ argv \in Argvs
    /\ configured \in BOOLEAN
    /\ prompt = <<>>
    /\ first_run = TRUE
    /\ edit_prompt = ""
    /\ shell_command = <<>>
    /\ is_dangerous = FALSE
    /\ dangerous_consequences = ""
    /\ explanation_task = "none"
    /\ choice = ""
    /\ exc = "none"
    /\ exit_code = <<>>
    /\ executed = <<>>
    /\ iter = 0
    /\ out = <<>>
    /\ rendered = <<>>
    /\ submitted = <<>>
    /\ prev_warned = FALSE
    /\ revised = FALSE
    /\ interrupted = ""
    /\ ensured = FALSE

\* sys.exit(status): SystemExit unwinds through asyncio.run and run()
Exit(status) ==
    /\ pc' = "exited"
    /\ exit_code' = <<status>>

\* an openai.error exception leaves the coroutine and unwinds to run()
Raise(kind) ==
    /\ pc' = "raised"
    /\ exc' = kind

\* ------------------------------------------------------------------ main()

\* main, sw_command == "config": shell_whiz_update_config() asks for the
\* credential and stores it; run() then returns
MainConfig ==
    /\ pc = "main"
    /\ sw_command = "config"
    /\ configured' = TRUE
    /\ out' = Append(out, Asked("credential"))
    /\ Exit(0)
    /\ UNCHANGED << sw_command, argv, prompt, first_run, edit_prompt,
                    shell_command, is_dangerous, dangerous_consequences,
                    explanation_task, choice, exc, executed, iter, rendered,
                    submitted, prev_warned,
                    revised,
                    interrupted,
                    ensured >>

\* shell_whiz_config(): a stored credential is used as it is, a missing one
\* is asked for interactively and stored
shell_whiz_config ==
    /\ configured' = TRUE
    /\ out' = IF configured THEN out ELSE Append(out, Asked("credential"))

\* MainAsk without the call of line 132
MainAsk_NoConfig ==
    /\ pc = "main"
    /\ sw_command = "ask"
    /\ pc' = "run_ai_assistant"
    /\ UNCHANGED << sw_command, argv, configured, prompt, first_run,
                    edit_prompt, shell_command, is_dangerous,
                    dangerous_consequences, explanation_task, choice, exc,
                    exit_code, executed, iter, out, rendered, submitted,
                    prev_warned, revised, interrupted, ensured >>

\* main, sw_command == "ask" (lines 147-148), and the first statement of
\* run_ai_assistant (line 132): shell_whiz_config() is called, whatever the
\* prompt is
MainAsk ==
    /\ pc = "main"
    /\ sw_command = "ask"
    /\ shell_whiz_config
    /\ ensured' = TRUE
    /\ pc' = "run_ai_assistant"
    /\ UNCHANGED << sw_command, argv, prompt, first_run, edit_prompt,
                    shell_command, is_dangerous, dangerous_consequences,
                    explanation_task, choice, exc, exit_code, executed, iter,
                    rendered, submitted, prev_warned, revised, interrupted >>

\* run_ai_assistant after shell_whiz_config(): the prompt is joined and
\* stripped; an empty one is a usage error, any other goes to shell_whiz_ask
run_ai_assistant ==
    /\ pc = "run_ai_assistant"
    /\ LET p == Strip(Join(argv)) IN
       IF p = <<>>
       THEN /\ out' = Append(out, Message("Please provide a valid prompt."))
            /\ Exit(INV_CLI_ARGS_EXIT_CODE)
            /\ UNCHANGED prompt
       ELSE /\ prompt' = p
            /\ pc' = "translate"
            /\ UNCHANGED << out, exit_code >>
    /\ UNCHANGED << sw_command, argv, configured, first_run, edit_prompt,
                    shell_command, is_dangerous, dangerous_consequences,
                    explanation_task, choice, exc, executed, iter, rendered,
                    submitted, prev_warned,
                    revised,
                    interrupted,
                    ensured >>

\* --------------------------------------------------------- shell_whiz_ask
\* Translate without the sys.exit of line 62: after the message the loop is
\* entered with the command as it was
Translate_FallsThrough ==
    /\ pc = "translate"
    /\ \/ \E cmd \in Commands :
            /\ shell_command' = cmd
            /\ out' = out \o << Call("translator", prompt),
                                Return("translator", "ok", cmd) >>
            /\ pc' = "loop"
            /\ UNCHANGED << exc, exit_code >>
       \/ /\ out' = out \o << Call("translator", prompt),
                              Return("translator", "ShellWhizTranslationError", <<>>),
                              Message("Shell Whiz doesn't know how to do this.") >>
          /\ pc' = "loop"
          /\ UNCHANGED << shell_command, exc, exit_code >>
       \/ \E kind \in BackendErrorSet :
            /\ out' = out \o << Call("translator", prompt),
                                Return("translator", kind, <<>>) >>
            /\ Raise(kind)
            /\ UNCHANGED << shell_command, exit_code >>
    /\ UNCHANGED << sw_command, argv, configured, prompt, first_run,
                    edit_prompt, is_dangerous, dangerous_consequences,
                    explanation_task, choice, executed, iter, rendered,
                    submitted, prev_warned, revised,
                    interrupted,
                    ensured >>

\* lines 55-62: translate_nl_to_shell_command(prompt), a synchronous call
Translate ==
    /\ pc = "translate"
    /\ \/ \E cmd \in Commands :
            /\ shell_command' = cmd
            /\ out' = out \o << Call("translator", prompt),
                                Return("translator", "ok", cmd) >>
            /\ pc' = "loop"
            /\ UNCHANGED << exc, exit_code >>
       \/ /\ out' = out \o << Call("translator", prompt),
                              Return("translator", "ShellWhizTranslationError", <<>>),
                              Message("Shell Whiz doesn't know how to do this.") >>
          /\ Exit(SW_ERROR_EXIT_CODE)
          /\ UNCHANGED << shell_command, exc >>
       \/ \E kind \in BackendErrorSet :
            /\ out' = out \o << Call("translator", prompt),
                                Return("translator", kind, <<>>) >>
            /\ Raise(kind)
            /\ UNCHANGED << shell_command, exit_code >>
    /\ UNCHANGED << sw_command, argv, configured, prompt, first_run,
                    edit_prompt, is_dangerous, dangerous_consequences,
                    explanation_task, choice, executed, iter, rendered,
                    submitted, prev_warned,
                    revised,
                    interrupted,
                    ensured >>

\* the history of a new iteration: the events start over
NewIteration ==
    /\ iter' = iter + 1
    /\ prev_warned' = (\E i \in 1..Len(out) : out[i].ev = "warning")

\* lines 64-66: the first pass through the loop
FirstPass ==
    /\ pc = "loop"
    /\ first_run
    /\ first_run' = FALSE
    /\ NewIteration
    /\ out' = <<>>
    /\ pc' = "render"
    /\ UNCHANGED << sw_command, argv, configured, prompt, edit_prompt,
                    shell_command, is_dangerous, dangerous_consequences,
                    explanation_task, choice, exc, exit_code, executed,
                    rendered, submitted,
                    revised,
                    interrupted,
                    ensured >>
\* Revise with the failed edit's empty result assigned: after
\* ShellWhizEditError the command is lost
Revise_FailureClearsCommand ==
    /\ pc = "loop"
    /\ ~first_run
    /\ edit_prompt # ""
    /\ NewIteration
    /\ \/ \E cmd \in Commands :
            /\ shell_command' = cmd
            /\ out' = << Call("editor", shell_command),
                         Return("editor", "ok", cmd) >>
            /\ pc' = "render"
            /\ UNCHANGED exc
       \/ /\ out' = << Call("editor", shell_command),
                       Return("editor", "ShellWhizEditError", <<>>) >>
          /\ shell_command' = <<>>
          /\ pc' = "render"
          /\ UNCHANGED exc
       \/ \E kind \in BackendErrorSet :
            /\ out' = << Call("editor", shell_command),
                         Return("editor", kind, <<>>) >>
            /\ Raise(kind)
            /\ UNCHANGED shell_command
    /\ UNCHANGED << sw_command, argv, configured, prompt, first_run,
                    edit_prompt, is_dangerous, dangerous_consequences,
                    explanation_task, choice, exit_code, executed, rendered,
                    submitted, revised,
                    interrupted,
                    ensured >>

\* Revise without the test of line 67: the editor is called on every later
\* pass, with an empty instruction too
Revise_AlsoWhenEmpty ==
    /\ pc = "loop"
    /\ ~first_run
    /\ NewIteration
    /\ \/ \E cmd \in Commands :
            /\ shell_command' = cmd
            /\ out' = << Call("editor", shell_command),
                         Return("editor", "ok", cmd) >>
            /\ pc' = "render"
            /\ UNCHANGED exc
       \/ /\ out' = << Call("editor", shell_command),
                       Return("editor", "ShellWhizEditError", <<>>) >>
          /\ pc' = "render"
          /\ UNCHANGED << shell_command, exc >>
       \/ \E kind \in BackendErrorSet :
            /\ out' = << Call("editor", shell_command),
                         Return("editor", kind, <<>>) >>
            /\ Raise(kind)
            /\ UNCHANGED shell_command
    /\ UNCHANGED << sw_command, argv, configured, prompt, first_run,
                    edit_prompt, is_dangerous, dangerous_consequences,
                    explanation_task, choice, exit_code, executed, rendered,
                    submitted, revised,
                    interrupted,
                    ensured >>
\* Revise without the `except ShellWhizEditError: pass` of lines 72-73: the
\* failed edit leaves the coroutine
Revise_EditErrorPropagates ==
    /\ pc = "loop"
    /\ ~first_run
    /\ edit_prompt # ""
    /\ NewIteration
    /\ \/ \E cmd \in Commands :
            /\ shell_command' = cmd
            /\ out' = << Call("editor", shell_command),
                         Return("editor", "ok", cmd) >>
            /\ pc' = "render"
            /\ UNCHANGED exc
       \/ /\ out' = << Call("editor", shell_command),
                       Return("editor", "ShellWhizEditError", <<>>) >>
          /\ Raise("ShellWhizEditError")
          /\ UNCHANGED shell_command
       \/ \E kind \in BackendErrorSet :
            /\ out' = << Call("editor", shell_command),
                         Return("editor", kind, <<>>) >>
            /\ Raise(kind)
            /\ UNCHANGED shell_command
    /\ UNCHANGED << sw_command, argv, configured, prompt, first_run,
                    edit_prompt, is_dangerous, dangerous_consequences,
                    explanation_task, choice, exit_code, executed, rendered,
                    submitted,
                    revised,
                    interrupted,
                    ensured >>

\* lines 67-73: a later pass with a revision instruction: the editor is
\* awaited; its domain error is passed over
Revise ==
    /\ pc = "loop"
    /\ ~first_run
    /\ edit_prompt # ""
    /\ NewIteration
    /\ \/ \E cmd \in Commands :
            /\ shell_command' = cmd
            /\ out' = << Call("editor", shell_command),
                         Return("editor", "ok", cmd) >>
            /\ pc' = "render"
            /\ UNCHANGED exc
       \/ /\ out' = << Call("editor", shell_command),
                       Return("editor", "ShellWhizEditError", <<>>) >>
          /\ pc' = "render"
          /\ UNCHANGED << shell_command, exc >>
       \/ \E kind \in BackendErrorSet :
            /\ out' = << Call("editor", shell_command),
                         Return("editor", kind, <<>>) >>
            /\ Raise(kind)
            /\ UNCHANGED shell_command
    /\ UNCHANGED << sw_command, argv, configured, prompt, first_run,
                    edit_prompt, is_dangerous, dangerous_consequences,
                    explanation_task, choice, exit_code, executed, rendered,
                    submitted,
                    revised,
                    interrupted,
                    ensured >>

\* lines 65-67: a later pass with an empty edit_prompt: nothing to do
NoRevision ==
    /\ pc = "loop"
    /\ ~first_run
    /\ edit_prompt = ""
    /\ NewIteration
    /\ out' = <<>>
    /\ pc' = "render"
    /\ UNCHANGED << sw_command, argv, configured, prompt, first_run,
                    edit_prompt, shell_command, is_dangerous,
                    dangerous_consequences, explanation_task, choice, exc,
                    exit_code, executed, rendered, submitted,
                    revised,
                    interrupted,
                    ensured >>

\* lines 75-79: print_command, then asyncio.create_task: the task is
\* scheduled and starts when the coroutine next yields to the event loop
Render ==
    /\ pc = "render"
    /\ out' = Append(out, PrintCommand(shell_command))
    /\ rendered' = PrintCommand(shell_command).arg
    /\ explanation_task' = "pending"
    /\ pc' = "danger"
    /\ UNCHANGED << sw_command, argv, configured, prompt, first_run,
                    edit_prompt, shell_command, is_dangerous,
                    dangerous_consequences, choice, exc, exit_code, executed,
                    iter, submitted, prev_warned,
                    revised,
                    interrupted,
                    ensured >>

\* DangerCheck without the rich.print of lines 88-91: no warning is printed
DangerCheck_NoWarning ==
    /\ pc = "danger"
    /\ \/ \E a \in Assessments :
            /\ is_dangerous' = a[1]
            /\ dangerous_consequences' = a[2]
            /\ out' = out \o << Call("classifier", shell_command),
                                Return("classifier", IF a[1] THEN "dangerous" ELSE "safe", <<a[2]>>) >>
            /\ pc' = "await"
            /\ UNCHANGED exc
       \/ /\ is_dangerous' = FALSE
          /\ out' = out \o << Call("classifier", shell_command),
                              Return("classifier", "ShellWhizWarningError", <<>>) >>
          /\ pc' = "await"
          /\ UNCHANGED << dangerous_consequences, exc >>
       \/ \E kind \in BackendErrorSet :
            /\ out' = out \o << Call("classifier", shell_command),
                                Return("classifier", kind, <<>>) >>
            /\ Raise(kind)
            /\ UNCHANGED << is_dangerous, dangerous_consequences >>
    /\ UNCHANGED << sw_command, argv, configured, prompt, first_run,
                    edit_prompt, shell_command, explanation_task, choice,
                    exit_code, executed, iter, rendered, submitted,
                    prev_warned, revised,
                    interrupted,
                    ensured >>

\* DangerCheck with `pass` for line 86: after ShellWhizWarningError
\* is_dangerous and dangerous_consequences keep the values of the iteration
\* before
DangerCheck_StaleAssessment ==
    /\ pc = "danger"
    /\ \/ \E a \in Assessments :
            /\ is_dangerous' = a[1]
            /\ dangerous_consequences' = a[2]
            /\ out' = out \o << Call("classifier", shell_command),
                                Return("classifier", IF a[1] THEN "dangerous" ELSE "safe", <<a[2]>>) >>
                          \o IF a[1] THEN << Event("warning", "", <<>>, a[2]) >> ELSE <<>>
            /\ pc' = "await"
            /\ UNCHANGED exc
       \/ /\ out' = out \o << Call("classifier", shell_command),
                              Return("classifier", "ShellWhizWarningError", <<>>) >>
                        \o IF is_dangerous
                           THEN << Event("warning", "", <<>>, dangerous_consequences) >>
                           ELSE <<>>
          /\ pc' = "await"
          /\ UNCHANGED << is_dangerous, dangerous_consequences, exc >>
       \/ \E kind \in BackendErrorSet :
            /\ out' = out \o << Call("classifier", shell_command),
                                Return("classifier", kind, <<>>) >>
            /\ Raise(kind)
            /\ UNCHANGED << is_dangerous, dangerous_consequences >>
    /\ UNCHANGED << sw_command, argv, configured, prompt, first_run,
                    edit_prompt, shell_command, explanation_task, choice,
                    exit_code, executed, iter, rendered, submitted,
                    prev_warned, revised,
                    interrupted,
                    ensured >>

\* lines 81-91: recognize_dangerous_command, a synchronous call (the event
\* loop does not run during it), and the warning
DangerCheck ==
    /\ pc = "danger"
    /\ \/ \E a \in Assessments :
            /\ is_dangerous' = a[1]
            /\ dangerous_consequences' = a[2]
            /\ out' = out \o << Call("classifier", shell_command),
                                Return("classifier", IF a[1] THEN "dangerous" ELSE "safe", <<a[2]>>) >>
                          \o IF a[1] THEN << Event("warning", "", <<>>, a[2]) >> ELSE <<>>
            /\ pc' = "await"
            /\ UNCHANGED exc
       \/ /\ is_dangerous' = FALSE
          /\ out' = out \o << Call("classifier", shell_command),
                              Return("classifier", "ShellWhizWarningError", <<>>) >>
          /\ pc' = "await"
          /\ UNCHANGED << dangerous_consequences, exc >>
       \/ \E kind \in BackendErrorSet :
            /\ out' = out \o << Call("classifier", shell_command),
                                Return("classifier", kind, <<>>) >>
            /\ Raise(kind)
            /\ UNCHANGED << is_dangerous, dangerous_consequences >>
    /\ UNCHANGED << sw_command, argv, configured, prompt, first_run,
                    edit_prompt, shell_command, explanation_task, choice,
                    exit_code, executed, iter, rendered, submitted,
                    prev_warned,
                    revised,
                    interrupted,
                    ensured >>
\* StartExplanation without the join of line 94: the task is started and the
\* user is prompted while its request is outstanding
StartExplanation_NoJoin ==
    /\ pc = "await"
    /\ explanation_task = "pending"
    /\ explanation_task' = "running"
    /\ out' = Append(out, Call("explainer", shell_command))
    /\ pc' = "prompt"
    /\ UNCHANGED << sw_command, argv, configured, prompt, first_run,
                    edit_prompt, shell_command, is_dangerous,
                    dangerous_consequences, choice, exc, exit_code, executed,
                    iter, rendered, submitted, prev_warned, revised,
                    interrupted, ensured >>

\* line 94, `await explanation_task` suspends shell_whiz_ask: the event loop
\* starts the task, get_explanation_of_shell_command sends its request
StartExplanation ==
    /\ pc = "await"
    /\ explanation_task = "pending"
    /\ explanation_task' = "running"
    /\ out' = Append(out, Call("explainer", shell_command))
    /\ UNCHANGED << pc, sw_command, argv, configured, prompt, first_run,
                    edit_prompt, shell_command, is_dangerous,
                    dangerous_consequences, choice, exc, exit_code, executed,
                    iter, rendered, submitted, prev_warned,
                    revised,
                    interrupted,
                    ensured >>
\* AwaitExplanation without the reset of line 98: edit_prompt keeps the
\* last instruction
AwaitExplanation_KeepsEditPrompt ==
    /\ pc = "await"
    /\ explanation_task = "running"
    /\ explanation_task' = "done"
    /\ \/ \E text \in Explanations :
            /\ out' = out \o << Return("explainer", "ok", <<>>),
                                PrintExplanation(text) >>
            /\ pc' = "prompt"
            /\ UNCHANGED exc
       \/ \E kind \in BackendErrorSet :
            /\ out' = Append(out, Return("explainer", kind, <<>>))
            /\ Raise(kind)
    /\ UNCHANGED << sw_command, argv, configured, prompt, first_run,
                    edit_prompt, shell_command, is_dangerous,
                    dangerous_consequences, choice, exit_code, executed,
                    iter, rendered, submitted, prev_warned, revised,
                    interrupted,
                    ensured >>

\* lines 94-98: the task ends and the await returns its result or raises its
\* exception; print_explanation; edit_prompt = ""
AwaitExplanation ==
    /\ pc = "await"
    /\ explanation_task = "running"
    /\ explanation_task' = "done"
    /\ \/ \E text \in Explanations :
            /\ out' = out \o << Return("explainer", "ok", <<>>),
                                PrintExplanation(text) >>
            /\ edit_prompt' = ""
            /\ pc' = "prompt"
            /\ UNCHANGED exc
       \/ \E kind \in BackendErrorSet :
            /\ out' = Append(out, Return("explainer", kind, <<>>))
            /\ Raise(kind)
            /\ UNCHANGED edit_prompt
    /\ UNCHANGED << sw_command, argv, configured, prompt, first_run,
                    shell_command, is_dangerous, dangerous_consequences,
                    choice, exit_code, executed, iter, rendered, submitted,
                    prev_warned,
                    revised,
                    interrupted,
                    ensured >>
\* ChoiceExit without the sys.exit() of line 119: the choice falls through
\* to the next pass of the loop
ChoiceExit_FallsThrough ==
    /\ pc = "prompt"
    /\ iter < MaxIter
    /\ choice' = "Exit"
    /\ out' = Append(out, Asked("action"))
    /\ pc' = "loop"
    /\ UNCHANGED << sw_command, argv, configured, prompt, first_run,
                    edit_prompt, shell_command, is_dangerous,
                    dangerous_consequences, explanation_task, exc, exit_code,
                    executed, iter, rendered, submitted, prev_warned,
                    revised,
                    interrupted,
                    ensured >>

\* lines 100-119: the user picks "Exit": sys.exit()
ChoiceExit ==
    /\ pc = "prompt"
    /\ choice' = "Exit"
    /\ out' = Append(out, Asked("action"))
    /\ Exit(0)
    /\ UNCHANGED << sw_command, argv, configured, prompt, first_run,
                    edit_prompt, shell_command, is_dangerous,
                    dangerous_consequences, explanation_task, exc, executed,
                    iter, rendered, submitted, prev_warned,
                    revised,
                    interrupted,
                    ensured >>
\* ChoiceRevise with the assignment of the "Edit manually" branch: the typed
\* instruction is assigned to shell_command
ChoiceRevise_AssignsCommand ==
    /\ pc = "prompt"
    /\ iter < MaxIter
    /\ choice' = "Revise query"
    /\ \E text \in Instructions :
            /\ shell_command' = IF text = "" THEN <<>> ELSE <<text>>
            /\ revised' = (revised \/ text # "")
    /\ out' = out \o << Asked("action"), Asked("Revise query") >>
    /\ pc' = "loop"
    /\ UNCHANGED << sw_command, argv, configured, prompt, first_run,
                    edit_prompt, is_dangerous, dangerous_consequences,
                    explanation_task, exc, exit_code, executed, iter,
                    rendered, submitted, prev_warned, interrupted, ensured >>

\* lines 100-117, 120-121: the user picks "Revise query" and types an
\* instruction, which may be empty
ChoiceRevise ==
    /\ pc = "prompt"
    /\ iter < MaxIter
    /\ choice' = "Revise query"
    /\ \E text \in Instructions :
            /\ edit_prompt' = text
            /\ revised' = (revised \/ text # "")
    /\ out' = out \o << Asked("action"), Asked("Revise query") >>
    /\ pc' = "loop"
    /\ UNCHANGED << sw_command, argv, configured, prompt, first_run,
                    shell_command, is_dangerous, dangerous_consequences,
                    explanation_task, exc, exit_code, executed, iter,
                    rendered, submitted, prev_warned,
                    interrupted,
                    ensured >>
\* ChoiceEdit with a label in line 122 that matches no choice of the list:
\* "Edit manually" is picked and no branch is taken
ChoiceEdit_NoBranch ==
    /\ pc = "prompt"
    /\ iter < MaxIter
    /\ choice' = "Edit manually"
    /\ out' = Append(out, Asked("action"))
    /\ pc' = "loop"
    /\ UNCHANGED << sw_command, argv, configured, prompt, first_run,
                    edit_prompt, shell_command, is_dangerous,
                    dangerous_consequences, explanation_task, exc, exit_code,
                    executed, iter, rendered, submitted, prev_warned,
                    revised, interrupted, ensured >>
\* ChoiceEdit that hands the typed command to the shell at once instead of
\* going back to the top of the loop
ChoiceEdit_RunsAtOnce ==
    /\ pc = "prompt"
    /\ iter < MaxIter
    /\ choice' = "Edit manually"
    /\ \E text \in TypedCommands \cup {shell_command} :
            /\ shell_command' = text
            /\ submitted' = text
            /\ \E rc \in ReturnCodes :
                    executed' = Append(executed, [cmd |-> text, returncode |-> rc])
            /\ out' = out \o << Asked("action"), Asked("Edit command"),
                                Event("run", "", text, "") >>
    /\ Exit(0)
    /\ UNCHANGED << sw_command, argv, configured, prompt, first_run,
                    edit_prompt, is_dangerous, dangerous_consequences,
                    explanation_task, exc, iter, rendered, prev_warned,
                    revised, interrupted, ensured >>

\* lines 100-117, 122-125: the user picks "Edit manually" and submits the
\* default, the current command, or a command typed over it
ChoiceEdit ==
    /\ pc = "prompt"
    /\ iter < MaxIter
    /\ choice' = "Edit manually"
    /\ \E text \in TypedCommands \cup {shell_command} :
            /\ shell_command' = text
            /\ submitted' = text
    /\ out' = out \o << Asked("action"), Asked("Edit command") >>
    /\ pc' = "loop"
    /\ UNCHANGED << sw_command, argv, configured, prompt, first_run,
                    edit_prompt, is_dangerous, dangerous_consequences,
                    explanation_task, exc, exit_code, executed, iter,
                    rendered, prev_warned,
                    revised,
                    interrupted,
                    ensured >>
\* ChoiceRun without the `return` of line 128: the loop goes on after the
\* command has run
ChoiceRun_NoReturn ==
    /\ pc = "prompt"
    /\ iter < MaxIter
    /\ choice' = "Run this command"
    /\ \E rc \in ReturnCodes :
            executed' = Append(executed, [cmd |-> shell_command, returncode |-> rc])
    /\ out' = out \o << Asked("action"), Event("run", "", shell_command, "") >>
    /\ pc' = "loop"
    /\ UNCHANGED << sw_command, argv, configured, prompt, first_run,
                    edit_prompt, shell_command, is_dangerous,
                    dangerous_consequences, explanation_task, exc, exit_code,
                    iter, rendered, submitted, prev_warned, revised,
                    interrupted,
                    ensured >>

\* ChoiceRun with the command's return code passed on as the exit status
ChoiceRun_ExitsWithReturnCode ==
    /\ pc = "prompt"
    /\ choice' = "Run this command"
    /\ \E rc \in ReturnCodes :
            /\ executed' = Append(executed, [cmd |-> shell_command, returncode |-> rc])
            /\ Exit(rc)
    /\ out' = out \o << Asked("action"), Event("run", "", shell_command, "") >>
    /\ UNCHANGED << sw_command, argv, configured, prompt, first_run,
                    edit_prompt, shell_command, is_dangerous,
                    dangerous_consequences, explanation_task, exc, iter,
                    rendered, submitted, prev_warned, revised,
                    interrupted,
                    ensured >>

\* lines 100-117, 126-128: the user picks "Run this command":
\* subprocess.run waits for the command, its return code is dropped, and
\* shell_whiz_ask, main and run return
ChoiceRun ==
    /\ pc = "prompt"
    /\ choice' = "Run this command"
    /\ \E rc \in ReturnCodes :
            executed' = Append(executed, [cmd |-> shell_command, returncode |-> rc])
    /\ out' = out \o << Asked("action"), Event("run", "", shell_command, "") >>
    /\ Exit(0)
    /\ UNCHANGED << sw_command, argv, configured, prompt, first_run,
                    edit_prompt, shell_command, is_dangerous,
                    dangerous_consequences, explanation_task, exc, iter,
                    rendered, submitted, prev_warned,
                    revised,
                    interrupted,
                    ensured >>

\* ------------------------------------------------------------------- run()

\* lines 152-198: asyncio.run cancels what is left of the tasks and raises
\* the exception again; the first except clause that matches prints its
\* message and exits
run_except ==
    /\ pc = "raised"
    /\ exc \in BackendErrorSet
    /\ explanation_task' =
          IF explanation_task \in {"pending", "running"} THEN "cancelled"
          ELSE explanation_task
    /\ out' = Append(out, Message(HandlerMessage[HandlerFor(exc)]))
    /\ Exit(OPENAI_ERROR_EXIT_CODE)
    /\ UNCHANGED << sw_command, argv, configured, prompt, first_run,
                    edit_prompt, shell_command, is_dangerous,
                    dangerous_consequences, choice, exc, executed, iter,
                    rendered, submitted, prev_warned,
                    revised,
                    interrupted,
                    ensured >>
\* -------------------------------------------------------- KeyboardInterrupt

\* Ctrl-C while translate_nl_to_shell_command (line 59) waits for the
\* backend: KeyboardInterrupt is raised there and unwinds to run()
InterruptTranslate ==
    /\ pc = "translate"
    /\ out' = Append(out, Call("translator", prompt))
    /\ interrupted' = "translator"
    /\ Raise("KeyboardInterrupt")
    /\ UNCHANGED << sw_command, argv, configured, prompt, first_run,
                    edit_prompt, shell_command, is_dangerous,
                    dangerous_consequences, explanation_task, choice,
                    exit_code, executed, iter, rendered, submitted,
                    prev_warned, revised,
                    ensured >>

\* Ctrl-C while edit_shell_command (lines 69-71) is awaited
InterruptEdit ==
    /\ pc = "loop"
    /\ ~first_run
    /\ edit_prompt # ""
    /\ NewIteration
    /\ out' = << Call("editor", shell_command) >>
    /\ interrupted' = "editor"
    /\ Raise("KeyboardInterrupt")
    /\ UNCHANGED << sw_command, argv, configured, prompt, first_run,
                    edit_prompt, shell_command, is_dangerous,
                    dangerous_consequences, explanation_task, choice,
                    exit_code, executed, rendered, submitted, revised,
                    ensured >>

\* Ctrl-C while recognize_dangerous_command (lines 82-84) waits for the
\* backend; the explanation task has not started
InterruptDanger ==
    /\ pc = "danger"
    /\ out' = Append(out, Call("classifier", shell_command))
    /\ interrupted' = "classifier"
    /\ Raise("KeyboardInterrupt")
    /\ UNCHANGED << sw_command, argv, configured, prompt, first_run,
                    edit_prompt, shell_command, is_dangerous,
                    dangerous_consequences, explanation_task, choice,
                    exit_code, executed, iter, rendered, submitted,
                    prev_warned, revised,
                    ensured >>

\* Ctrl-C while the explanation request is outstanding (line 94)
InterruptExplanation ==
    /\ pc = "await"
    /\ explanation_task = "running"
    /\ interrupted' = "explainer"
    /\ Raise("KeyboardInterrupt")
    /\ UNCHANGED << sw_command, argv, configured, prompt, first_run,
                    edit_prompt, shell_command, is_dangerous,
                    dangerous_consequences, explanation_task, choice,
                    exit_code, executed, iter, out, rendered, submitted,
                    prev_warned, revised,
                    ensured >>

\* Ctrl-C at "Select an action" (lines 114-117): inquirer.prompt, called
\* without raise_keyboard_interrupt, catches the KeyboardInterrupt, prints
\* "Cancelled by user" and returns None; answers["action"] then raises
\* TypeError, which no except clause of run() names: the interpreter prints
\* the traceback and ends with status 1
InterruptChoice ==
    /\ pc = "prompt"
    /\ out' = out \o << Asked("action"),
                        Message("Cancelled by user"),
                        Event("traceback", "", <<>>, "TypeError") >>
    /\ interrupted' = "Select an action"
    /\ exc' = "TypeError"
    /\ Exit(1)
    /\ UNCHANGED << sw_command, argv, configured, prompt, first_run,
                    edit_prompt, shell_command, is_dangerous,
                    dangerous_consequences, explanation_task, choice,
                    executed, iter, rendered, submitted, prev_warned,
                    revised,
                    ensured >>

\* Ctrl-C at the text field of "Revise query" (line 121) or "Edit manually"
\* (lines 123-125): inquirer.text lets the KeyboardInterrupt through, before
\* the assignment
InterruptText ==
    /\ pc = "prompt"
    /\ \E what \in {"Revise query", "Edit manually"} :
            /\ choice' = what
            /\ out' = out \o << Asked("action"),
                                Asked(IF what = "Revise query" THEN "Revise query"
                                      ELSE "Edit command") >>
            /\ interrupted' = what
    /\ Raise("KeyboardInterrupt")
    /\ UNCHANGED << sw_command, argv, configured, prompt, first_run,
                    edit_prompt, shell_command, is_dangerous,
                    dangerous_consequences, explanation_task, exit_code,
                    executed, iter, rendered, submitted, prev_warned,
                    revised,
                    ensured >>

\* lines 152-153, 199-201: asyncio.run cancels what is left of the tasks and
\* raises the KeyboardInterrupt again; run() prints the notice and exits 0
run_except_interrupt ==
    /\ pc = "raised"
    /\ exc = "KeyboardInterrupt"
    /\ explanation_task' =
          IF explanation_task \in {"pending", "running"} THEN "cancelled"
          ELSE explanation_task
    /\ out' = Append(out, Message("Exiting..."))
    /\ Exit(0)
    /\ UNCHANGED << sw_command, argv, configured, prompt, first_run,
                    edit_prompt, shell_command, is_dangerous,
                    dangerous_consequences, choice, exc, executed, iter,
                    rendered, submitted, prev_warned, revised, interrupted,
                    ensured >>

Next ==
    \/ MainConfig
    \/ MainAsk
    \/ run_ai_assistant
    \/ Translate
    \/ FirstPass
    \/ Revise
    \/ NoRevision
    \/ Render
    \/ DangerCheck
    \/ StartExplanation
    \/ AwaitExplanation
    \/ ChoiceExit
    \/ ChoiceRevise
    \/ ChoiceEdit
    \/ ChoiceRun
    \/ run_except
    \/ InterruptTranslate
    \/ InterruptEdit
    \/ InterruptDanger
    \/ InterruptExplanation
    \/ InterruptChoice
    \/ InterruptText
    \/ run_except_interrupt

Spec == Init /\ [][Next]_vars

\* run() with every call returning: a backend call, a prompt that is being
\* answered and the shell execution each come to an end, so a step that can
\* be taken is taken; the user's going on for ever with "Revise query" or
\* "Edit manually" is excluded by MaxIter
FairSpec == Spec /\ WF_vars(Next)


\* ------------------------------------------------- reading the event history

Positions(ev) == { i \in 1..Len(out) : out[i].ev = ev }
CallsTo(who) == { i \in 1..Len(out) : out[i].ev = "call" /\ out[i].who = who }
ReturnsOf(who, result) ==
    { i \in 1..Len(out) :
        out[i].ev = "return" /\ out[i].who = who /\ out[i].text = result }
ChoicePrompts == { i \in 1..Len(out) : out[i] = Asked("action") }
LoopPrompts == { i \in 1..Len(out) : out[i].ev = "prompt" /\ out[i].who # "credential" }
Components == {"translator", "editor", "classifier", "explainer"}
BackendFailures ==
    { i \in 1..Len(out) :
        out[i].ev = "return" /\ out[i].who \in Components
                             /\ out[i].text \in BackendErrorSet }

\* the message that belongs to an error kind: that of the except clause
\* naming the kind
MessageOf(kind) ==
    HandlerMessage[CHOOSE i \in 1..Len(BackendErrors) : BackendErrors[i] = kind]

\* ---------------------------------------------------------------------- C1

\* C1: subprocess.run is called only by the step in which the user, at the
\* choice prompt of the current iteration, picks "Run this command"; it is
\* called with nothing executed before (at most once per invocation) and
\* with no backend exception pending; no other step executes anything.
C1_ExecutionOnlyOnRunChoice ==
    [][ executed' # executed =>
          /\ pc = "prompt"
          /\ choice' = "Run this command"
          /\ exc = "none" /\ exc' = "none"
          /\ executed = <<>>
          /\ Len(executed') = 1
          /\ executed'[1].cmd = shell_command
          /\ pc' = "exited" ]_vars

\* a command was executed after the user revised and edited
C1_Witness ==
    /\ Len(executed) = 1
    /\ iter = MaxIter
    /\ revised

\* ---------------------------------------------------------------------- C2

TranslationFailed == ReturnsOf("translator", "ShellWhizTranslationError") # {}

\* C2: when the translator fails with ShellWhizTranslationError the process
\* has ended with SW_ERROR_EXIT_CODE, the message is the last thing printed,
\* and the loop was not entered: nothing rendered, no classifier, explainer
\* or editor call, no explanation task, no loop prompt, nothing executed.
C2_TranslationFailureIsFatal ==
    TranslationFailed =>
        /\ pc = "exited"
        /\ exit_code = << SW_ERROR_EXIT_CODE >>
        /\ out[Len(out)] = Message("Shell Whiz doesn't know how to do this.")
        /\ ReturnsOf("translator", "ShellWhizTranslationError") = {Len(out) - 1}
        /\ iter = 0
        /\ first_run
        /\ Positions("print_command") = {}
        /\ Positions("warning") = {}
        /\ Positions("print_explanation") = {}
        /\ CallsTo("editor") \cup CallsTo("classifier") \cup CallsTo("explainer") = {}
        /\ explanation_task = "none"
        /\ LoopPrompts = {}
        /\ executed = <<>>

\* the translator failed in a run that first had to ask for the credential
C2_Witness ==
    /\ TranslationFailed
    /\ out[1] = Asked("credential")
    /\ pc = "exited"

\* ---------------------------------------------------------------------- C3

\* C3: a backend error returned by the translator, the editor, the
\* classifier or the explainer is the exception that unwinds to run(); the
\* next and last event is the message of that error kind, with exit code
\* OPENAI_ERROR_EXIT_CODE; nothing is executed, no prompt follows, and no
\* explanation task is left outstanding.
C3_BackendErrorReachesTopLevel ==
    \A i \in BackendFailures :
        /\ exc = out[i].text
        /\ pc \in {"raised", "exited"}
        /\ executed = <<>>
        /\ pc = "raised" => i = Len(out)
        /\ pc = "exited" =>
              /\ Len(out) = i + 1
              /\ out[i + 1] = Message(MessageOf(out[i].text))
              /\ exit_code = << OPENAI_ERROR_EXIT_CODE >>
              /\ explanation_task \notin {"pending", "running"}

\* a rate limit error of the classifier in a later iteration was reported
C3_Witness ==
    /\ pc = "exited"
    /\ iter >= 2
    /\ ReturnsOf("classifier", "RateLimitError") # {}
    /\ explanation_task = "cancelled"

\* ---------------------------------------------------------------------- C4

UsageError == \E i \in 1..Len(out) : out[i] = Message("Please provide a valid prompt.")

\* C4: an `ask` whose prompt is empty after joining and stripping ends with
\* INV_CLI_ARGS_EXIT_CODE, a code of its own, and the usage message is the
\* first and only event: no backend call and no other interaction comes
\* before it.
C4_UsageErrorReportedImmediately ==
    UsageError =>
        /\ pc = "exited"
        /\ exit_code = << INV_CLI_ARGS_EXIT_CODE >>
        /\ INV_CLI_ARGS_EXIT_CODE \notin {0, SW_ERROR_EXIT_CODE, OPENAI_ERROR_EXIT_CODE}
        /\ Positions("call") = {}
        /\ out = << Message("Please provide a valid prompt.") >>

\* ---------------------------------------------------------------------- C5

\* C5: in every iteration the command is rendered once and first of the
\* visible events; a warning is shown only after the classifier reported the
\* command dangerous, with the consequences it reported, and before the
\* explanation; by the time the explanation is shown the warning is there if
\* and only if the classifier reported danger; the choice prompt comes only
\* after the explanation, and the program waits at the prompt only with the
\* explanation shown.
C5_OutputOrder ==
    LET cmd == Positions("print_command")
        warn == Positions("warning")
        expl == Positions("print_explanation")
        danger == ReturnsOf("classifier", "dangerous")
    IN  /\ iter = 0 => cmd \cup warn \cup expl \cup LoopPrompts = {}
        /\ Cardinality(cmd) <= 1 /\ Cardinality(warn) <= 1 /\ Cardinality(expl) <= 1
        /\ Cardinality(ChoicePrompts) <= 1
        /\ \A w \in warn :
              /\ \E c \in cmd : c < w
              /\ w - 1 \in danger /\ out[w].text = out[w - 1].arg[1]
              /\ \A e \in expl : w < e
        /\ \A e \in expl :
              /\ \E c \in cmd : c < e
              /\ (warn # {}) <=> (danger # {})
        /\ \A a \in LoopPrompts : \E e \in expl : e < a
        /\ pc = "prompt" => expl # {}
        /\ pc \in {"danger", "await", "prompt"} => cmd # {}

\* the prompt of a later iteration, reached after a warning and the explanation
C5_Witness ==
    /\ pc = "prompt"
    /\ iter >= 2
    /\ Positions("warning") # {}
    /\ Positions("print_explanation") # {}


\* ---------------------------------------------------------------------- C6

ClassifierFailed == ReturnsOf("classifier", "ShellWhizWarningError")

\* C6: in an iteration in which the classifier fails with
\* ShellWhizWarningError, whatever the iteration before showed, no warning
\* is displayed and is_dangerous is false; the loop goes on to the
\* explanation: the next event is the explainer's call, and a loop prompt
\* appears only after the explanation was displayed.
C6_ClassifierFailureMeansNoWarning ==
    \A f \in ClassifierFailed :
        /\ Positions("warning") = {}
        /\ ~is_dangerous
        /\ IF f = Len(out)
           THEN pc = "await" /\ explanation_task = "pending"
           ELSE out[f + 1].ev = "call" /\ out[f + 1].who = "explainer"
        /\ \A a \in LoopPrompts :
              \E e \in Positions("print_explanation") : f < e /\ e < a
        /\ pc = "prompt" => Positions("print_explanation") # {}

\* the classifier failed in the iteration after one that showed a warning,
\* and the user is being prompted
C6_Witness ==
    /\ ClassifierFailed # {}
    /\ prev_warned
    /\ dangerous_consequences # ""
    /\ pc = "prompt"

\* ---------------------------------------------------------------------- C7

EditFailed == ReturnsOf("editor", "ShellWhizEditError") # {}

\* C7: the step in which the editor fails with ShellWhizEditError follows a
\* "Revise query" with a non-empty instruction, leaves shell_command as it
\* was and goes on to the render; in that iteration the command rendered is
\* the one that was given to the editor, and the prompt is reached only
\* through the render, the danger check and the explanation.
C7_EditFailureKeepsCommand ==
    [][ /\ (pc = "loop" /\ EditFailed') =>
              /\ choice = "Revise query" /\ edit_prompt # ""
              /\ shell_command' = shell_command
              /\ pc' = "render"
              /\ exc' = "none"
        /\ EditFailed =>
              /\ pc \notin {"raised"} \/ CallsTo("classifier") # {}
              /\ \A c \in Positions("print_command") :
                    out[c].arg = PrintCommand(out[1].arg).arg
              /\ pc = "prompt" =>
                    /\ Positions("print_command") # {}
                    /\ CallsTo("classifier") # {}
                    /\ Positions("print_explanation") # {}
      ]_vars

\* after a failed edit the loop has reached the prompt again
C7_Witness ==
    /\ EditFailed
    /\ pc = "prompt"
    /\ shell_command # <<>>

\* ---------------------------------------------------------------------- C8

\* C8: after "Edit manually" with a string submitted (the text field was not
\* broken off by Ctrl-C), from the start of the next iteration on, the
\* editor is not called and the command rendered is the submitted string
\* (which is the current command when the default was submitted); past the
\* render position the command has been rendered.
C8_ManualEditIsRenderedVerbatim ==
    (choice = "Edit manually" /\ pc # "loop" /\ interrupted # "Edit manually") =>
        /\ CallsTo("editor") = {}
        /\ shell_command = submitted
        /\ \A c \in Positions("print_command") :
              out[c].arg = PrintCommand(submitted).arg
        /\ pc \in {"danger", "await", "prompt"} =>
              /\ Positions("print_command") # {}
              /\ rendered = PrintCommand(submitted).arg

\* a manual edit in an invocation that had a revision instruction before,
\* rendered and explained
C8_Witness ==
    /\ choice = "Edit manually"
    /\ revised
    /\ pc = "prompt"
    /\ submitted # <<>>

\* ---------------------------------------------------------------------- C9

\* C9: a later pass that begins with an empty edit_prompt after "Revise
\* query" calls no editor and leaves shell_command unchanged on its way to
\* the render, and the render prints what the render before it printed.
C9_EmptyRevisionIsNoOp ==
    [][ (choice = "Revise query" /\ edit_prompt = "" /\ pc \in {"loop", "render"}) =>
            /\ shell_command' = shell_command
            /\ CallsTo("editor")' = {}
            /\ pc = "loop" => pc' = "render"
            /\ pc = "render" => (rendered' = rendered /\ Positions("print_command")' # {})
      ]_vars

\* the last pass the bound allows began with an empty edit_prompt, in an
\* invocation without any revision instruction, and was rendered
C9_Witness ==
    /\ choice = "Revise query"
    /\ edit_prompt = ""
    /\ ~revised
    /\ iter = MaxIter
    /\ pc = "danger"

\* --------------------------------------------------------------------- C10

\* C10: once the command was handed to subprocess.run the invocation is
\* over with status 0, whatever the command returned: the run is the last
\* event, straight after the choice, no task is outstanding and no
\* exception is pending.
C10_RunEndsTheInvocation ==
    executed # <<>> =>
        /\ Len(executed) = 1
        /\ pc = "exited"
        /\ exit_code = << 0 >>
        /\ exc = "none"
        /\ explanation_task = "done"
        /\ Len(out) >= 2
        /\ out[Len(out)] = Event("run", "", executed[1].cmd, "")
        /\ out[Len(out) - 1] = Asked("action")

\* the executed command failed
C10_Witness ==
    /\ executed # <<>>
    /\ executed[1].returncode # 0
    /\ pc = "exited"

\* --------------------------------------------------------------------- C11

\* C11: once the user has picked "Exit" the process has terminated with
\* status 0: the choice prompt is the last event (no backend call, render or
\* prompt after it), nothing was executed, no explanation request is
\* outstanding and no exception is pending.
C11_ExitChoiceTerminates ==
    choice = "Exit" =>
        /\ pc = "exited"
        /\ exit_code = << 0 >>
        /\ executed = <<>>
        /\ exc = "none"
        /\ explanation_task = "done"
        /\ out[Len(out)] = Asked("action")
        /\ ChoicePrompts = {Len(out)}

\* "Exit" was picked in a later iteration
C11_Witness ==
    /\ choice = "Exit"
    /\ iter >= 2
    /\ pc = "exited"

\* --------------------------------------------------------------------- C12

\* C12: after a Ctrl-C at any point (a backend call, the outstanding
\* explanation request, the choice prompt, a text field) the
\* KeyboardInterrupt is on its way to run() or was handled there: the notice
\* is the last thing printed, the exit status is 0, no explanation request
\* is left outstanding and nothing was executed.
C12_InterruptRecoveredAtTopLevel ==
    interrupted # "" =>
        /\ executed = <<>>
        /\ pc \in {"raised", "exited"}
        /\ pc = "raised" => exc = "KeyboardInterrupt"
        /\ pc = "exited" =>
              /\ exit_code = << 0 >>
              /\ out[Len(out)] = Message("Exiting...")
              /\ explanation_task \notin {"pending", "running"}

\* --------------------------------------------------------------------- C13

\* a backend component was called in this invocation (the events start over
\* with every iteration, and every iteration calls the classifier)
BackendContacted == Positions("call") # {} \/ iter >= 1

\* C13: an `ask` invocation calls shell_whiz_config() first thing, whatever
\* its prompt; whenever a backend component has been called, or is about to
\* be, shell_whiz_config() has been called and has left a credential stored.
C13_ConfigBeforeBackend ==
    /\ (sw_command = "ask" /\ pc # "main") => ensured
    /\ (BackendContacted \/ pc = "translate") => (ensured /\ configured)
    /\ sw_command = "config" => ~BackendContacted

\* the translator was called in a run that had to ask for the credential
C13_Witness ==
    /\ ensured
    /\ Len(out) >= 2
    /\ out[1] = Asked("credential")
    /\ out[2] = Call("translator", prompt)

\* --------------------------------------------------------------------- C14

\* C14: in every iteration the explanation request is in flight while the
\* danger check is: by the time the classifier returns, with a result or an
\* error, the explainer has been called.
C14_ExplanationOverlapsDangerCheck ==
    \A r \in { i \in 1..Len(out) : out[i].ev = "return" /\ out[i].who = "classifier" } :
        \E c \in CallsTo("explainer") : c < r

\* --------------------------------------------------------------------- C15

\* backend requests sent and not answered, among the events of the iteration
Outstanding == Cardinality(Positions("call")) - Cardinality(Positions("return"))

\* C15: at most two backend requests are outstanding; the explanation task
\* is pending or running only between its creation and the end of the await
\* of the same iteration (or while an exception unwinds); at the choice
\* prompt, and once a loop prompt was shown, the task is done and no request
\* is outstanding; where a new task is about to be created none is left
\* pending or running.
C15_ExplanationJoinedBeforePrompt ==
    /\ Outstanding <= 2
    /\ explanation_task = "pending" => pc \in {"danger", "await", "raised"}
    /\ explanation_task = "running" => pc \in {"await", "raised"}
    /\ pc = "prompt" => (explanation_task = "done" /\ Outstanding = 0)
    /\ LoopPrompts # {} => (explanation_task = "done" /\ Outstanding = 0)
    /\ pc \in {"loop", "render"} => explanation_task \in {"none", "done"}

\* the prompt of the last iteration, its explanation task joined
C15_Witness ==
    /\ pc = "prompt"
    /\ iter = MaxIter
    /\ explanation_task = "done"
    /\ CallsTo("explainer") # {}

\* --------------------------------------------------------------------- C16

\* the events of an iteration speak of one command: what was rendered is the
\* command sent to the classifier and to the explainer, and it is the
\* current command until the choice is made
OneCommandPerIteration ==
    /\ \A p \in Positions("print_command") :
        \A c \in CallsTo("classifier") \cup CallsTo("explainer") :
            out[p].arg = PrintCommand(out[c].arg).arg
    /\ \A c \in CallsTo("classifier") : \A e \in CallsTo("explainer") :
            out[c].arg = out[e].arg
    /\ pc \in {"danger", "await", "prompt"} =>
            \A p \in Positions("print_command") :
                out[p].arg = PrintCommand(shell_command).arg

\* C16: after the translator has set it, shell_command changes only in the
\* step of an "Edit manually" choice, to the submitted text, or in the step
\* at the top of the next pass in which the editor returns a command, to
\* that command; every other step (render, danger check, explanation, an
\* empty revision, a failed edit, an interrupt) leaves it as it is, so the
\* events of one iteration all speak of the same command.
C16_CommandReplacedOnlyBetweenIterations ==
    [][ /\ shell_command' # shell_command =>
              \/ pc = "translate" /\ first_run
              \/ /\ pc = "prompt" /\ pc' = "loop"
                 /\ choice' = "Edit manually"
                 /\ shell_command' = submitted'
              \/ /\ pc = "loop" /\ pc' = "render"
                 /\ choice = "Revise query" /\ edit_prompt # ""
                 /\ out' = << Call("editor", shell_command),
                              Return("editor", "ok", shell_command') >>
        /\ OneCommandPerIteration
        /\ OneCommandPerIteration'
      ]_vars

\* an iteration whose command came from the editor has reached the prompt
C16_Witness ==
    /\ pc = "prompt"
    /\ Len(out) >= 2
    /\ out[2] = Return("editor", "ok", shell_command)
    /\ out[1].arg # shell_command
    /\ CallsTo("explainer") # {}

\* --------------------------------------------------------------------- C17

\* the choices of the inquirer.List of lines 100-112
Choices == {"Run this command", "Revise query", "Edit manually", "Exit"}

\* C17: a step that answers the choice prompt (one that no Ctrl-C breaks
\* off) sets choice to one of the four choices, after a single choice prompt
\* in the iteration, and is the one transition of that choice and none of
\* the others: Executing for "Run this command", Revising (or the no-op of an
\* empty instruction) for "Revise query", ManualEdit for "Edit manually",
\* Exited for "Exit".
C17_OneChoiceOneTransition ==
    [][ (pc = "prompt" /\ interrupted' = "") =>
          LET Executing == /\ Len(executed') = Len(executed) + 1
                           /\ out'[Len(out')].ev = "run"
                           /\ pc' = "exited"
              Revising == /\ pc' = "loop"
                          /\ out'[Len(out')] = Asked("Revise query")
                          /\ edit_prompt' \in Instructions
                          /\ shell_command' = shell_command
                          /\ executed' = executed
              ManualEdit == /\ pc' = "loop"
                            /\ out'[Len(out')] = Asked("Edit command")
                            /\ shell_command' = submitted'
                            /\ edit_prompt' = edit_prompt
                            /\ executed' = executed
              Exited == /\ pc' = "exited"
                        /\ out'[Len(out')] = Asked("action")
                        /\ shell_command' = shell_command
                        /\ executed' = executed
          IN  /\ choice' \in Choices
              /\ Cardinality(ChoicePrompts') = 1
              /\ (choice' = "Run this command") <=> Executing
              /\ (choice' = "Revise query") <=> Revising
              /\ (choice' = "Edit manually") <=> ManualEdit
              /\ (choice' = "Exit") <=> Exited
      ]_vars

\* the prompt of the second iteration was answered with "Edit manually"
C17_Witness ==
    /\ pc = "loop"
    /\ iter = 2
    /\ choice = "Edit manually"
    /\ interrupted = ""
    /\ out[Len(out)] = Asked("Edit command")

\* --------------------------------------------------------------------- C18

\* at the top of the loop: the pass before ended in "Revise query" and the
\* instruction typed there is not empty
RevisionRequested ==
    /\ ~first_run
    /\ choice = "Revise query"
    /\ Len(out) > 0
    /\ out[Len(out)] = Asked("Revise query")
    /\ edit_prompt # ""

\* C18: the step at the top of the loop calls the editor exactly when the
\* pass before ended in "Revise query" with a non-empty instruction (so not
\* on the first pass and not after "Edit manually"); no other step calls
\* the editor and an iteration has at most one editor call; the instruction
\* is empty again whenever the prompt is reached, also after a failed edit,
\* so a later iteration calls the editor only for a new instruction.
C18_EditorOnlyAfterRevision ==
    [][ /\ (pc = "loop") => ((CallsTo("editor")' # {}) <=> RevisionRequested)
        /\ (pc # "loop") => (CallsTo("editor")' = CallsTo("editor"))
        /\ Cardinality(CallsTo("editor")') <= 1
        /\ (pc' = "prompt") => (edit_prompt' = "")
      ]_vars

\* the second iteration began with an editor call
C18_Witness ==
    /\ pc = "render"
    /\ iter = 2
    /\ choice = "Revise query"
    /\ Cardinality(CallsTo("editor")) = 1

\* --------------------------------------------------------------------- C19

\* C19: once a command has been executed, the string handed to the shell is
\* the value of shell_command, and in the iteration of that "Run this
\* command" choice this same command was printed by print_command, then
\* given to the classifier, then given to the explainer, whose explanation
\* was printed before the choice prompt; the render is the latest one, and
\* every editor call or manual edit lies before it.
C19_ExecutedCommandWasVetted ==
    (executed # <<>>) =>
        LET cmd == executed[Len(executed)].cmd
        IN  /\ Len(executed) = 1
            /\ cmd = shell_command
            /\ rendered = PrintCommand(cmd).arg
            /\ \E p \in Positions("print_command"),
                  c \in CallsTo("classifier"),
                  e \in CallsTo("explainer"),
                  x \in Positions("print_explanation"),
                  a \in ChoicePrompts,
                  r \in Positions("run") :
                    /\ p < c /\ c < e /\ e < x /\ x < a /\ a < r
                    /\ r = Len(out)
                    /\ out[p] = PrintCommand(cmd)
                    /\ out[c].arg = cmd
                    /\ out[e].arg = cmd
                    /\ out[r].arg = cmd
                    /\ \A i \in Positions("print_command") : i <= p
                    /\ \A i \in CallsTo("editor") : i < p
                    /\ \A i \in LoopPrompts : i >= a

\* a command typed at "Edit command" was executed in a later iteration
C19_Witness ==
    /\ executed # <<>>
    /\ choice = "Run this command"
    /\ submitted # <<>>
    /\ executed[1].cmd = submitted
    /\ iter > 1
    /\ Positions("run") # {}

\* --------------------------------------------------------------------- C20

\* the positions of the loop of lines 64-128
InLoop == pc \in {"loop", "render", "danger", "await", "prompt"}

\* C20: a step leaves the loop only by the "Run this command" or "Exit"
\* choice, by an openai.error exception on its way to run(), or by a Ctrl-C;
\* a step that answers the prompt with "Revise query" or "Edit manually"
\* goes to the top of the loop, and from there another render and prompt
\* follow unless a backend error or an interrupt ends the loop; what has
\* left the loop does not come back. With every call returning and the
\* user not revising or editing for ever, the invocation terminates.
C20_LoopEndsAndTerminates ==
    /\ [][ /\ (InLoop /\ ~InLoop') =>
                \/ /\ pc = "prompt"
                   /\ pc' = "exited"
                   /\ choice' \in {"Run this command", "Exit"}
                   /\ interrupted' = interrupted
                \/ /\ pc' = "raised"
                   /\ exc' \in BackendErrorSet
                   /\ interrupted' = interrupted
                \/ interrupted' # interrupted
           /\ (/\ pc = "prompt"
               /\ choice' \in {"Revise query", "Edit manually"}
               /\ interrupted' = interrupted) => (pc' = "loop")
           /\ (InLoop' /\ ~InLoop) => (pc = "translate" /\ iter = 0)
         ]_vars
    /\ (pc = "loop" /\ choice \in {"Revise query", "Edit manually"})
          ~> \/ pc = "prompt" /\ Positions("print_command") # {}
             \/ pc = "exited" /\ (exc \in BackendErrorSet \/ interrupted # "")
    /\ <>(pc = "exited")

\* the loop went round after a revision and a manual edit, and ended
C20_Witness ==
    /\ pc = "exited"
    /\ iter = 3
    /\ revised
    /\ submitted # <<>>
    /\ choice \in {"Run this command", "Exit"}
    /\ interrupted = ""

====
